---- MODULE Spec2Model ----
(***************************************************************************)
(* Model of src/src/installer.ts: DotnetVersionResolver (resolution of a   *)
(* 'dotnet-version' specifier into an installer argument) and              *)
(* DotnetCoreInstaller.installDotnet (building and running the installer   *)
(* invocation).                                                            *)
(*                                                                         *)
(* A JavaScript string is a sequence of one-character strings, so that     *)
(* trim, split, the regular-expression tests and template concatenation    *)
(* are computed on characters.                                             *)
(***************************************************************************)
EXTENDS Integers, Sequences, FiniteSets, TLC

\* ------------------------------------------------------------------ bounds
\* longest 'releases-index' array served by the remote index
MaxIndexLen == 2
\* number of leading / trailing blanks put around a specifier
MaxPad == 1
\* largest exit code the installer script returns
MaxExitCode == 1

\* ------------------------------------------------------- program constants
\* maxRetries of the HttpClient built by resolveVersionInput
MaxRetries == 3
\* the major from which 'dotnet-quality' is honoured
QualityMajor == 6

\* ---------------------------------------------------------- string helpers
Digits == {"0", "1", "2", "3", "4", "5", "6", "7", "8", "9"}
Blank == " "
Dot == <<".">>

\* the value of a destructured array element that does not exist
Undefined == <<"undefined">>

RECURSIVE DropLeadingBlanks(_)
DropLeadingBlanks(s) ==
  IF s # <<>> /\ Head(s) = Blank THEN DropLeadingBlanks(Tail(s)) ELSE s

RECURSIVE DropTrailingBlanks(_)
DropTrailingBlanks(s) ==
  IF s # <<>> /\ s[Len(s)] = Blank
  THEN DropTrailingBlanks(SubSeq(s, 1, Len(s) - 1))
  ELSE s

\* String.prototype.trim
Trim(s) == DropTrailingBlanks(DropLeadingBlanks(s))

\* String.prototype.split with a one-character separator
RECURSIVE SplitAcc(_, _, _)
SplitAcc(s, sep, cur) ==
  IF s = <<>> THEN <<cur>>
  ELSE IF Head(s) = sep THEN <<cur>> \o SplitAcc(Tail(s), sep, <<>>)
  ELSE SplitAcc(Tail(s), sep, Append(cur, Head(s)))

Split(s, sep) == SplitAcc(s, sep, <<>>)

\* Array.prototype.join: an undefined element is joined as the empty string
RECURSIVE Join(_, _)
Join(parts, sep) ==
  IF parts = <<>> THEN <<>>
  ELSE LET h == IF Head(parts) = Undefined THEN <<>> ELSE Head(parts)
       IN IF Len(parts) = 1 THEN h ELSE h \o sep \o Join(Tail(parts), sep)

AllDigits(s) == \A i \in 1..Len(s) : s[i] \in Digits

DigitVal(c) ==
  CASE c = "0" -> 0 [] c = "1" -> 1 [] c = "2" -> 2 [] c = "3" -> 3
    [] c = "4" -> 4 [] c = "5" -> 5 [] c = "6" -> 6 [] c = "7" -> 7
    [] c = "8" -> 8 [] c = "9" -> 9 [] c = "a" -> 10 [] c = "b" -> 11
    [] c = "c" -> 12 [] c = "d" -> 13 [] c = "e" -> 14 [] c = "f" -> 15

HexDigits == Digits \cup {"a", "b", "c", "d", "e", "f"}

RECURSIVE RadixVal(_, _)
RadixVal(s, radix) ==
  IF s = <<>> THEN 0
  ELSE RadixVal(SubSeq(s, 1, Len(s) - 1), radix) * radix + DigitVal(s[Len(s)])

\* the result of a numeric conversion that is not a number
NaN == -1

\* a conversion that keeps the digits of the string and reads them as decimal
RECURSIVE DigitsOf(_)
DigitsOf(s) ==
  IF s = <<>> THEN <<>>
  ELSE (IF Head(s) \in Digits THEN <<Head(s)>> ELSE <<>>) \o DigitsOf(Tail(s))

ToNumberDigitsOnly(s) ==
  IF DigitsOf(s) = <<>> THEN NaN ELSE RadixVal(DigitsOf(s), 10)

\* unary plus applied to a string without '.', sign or exponent: blanks are
\* stripped, the empty string is 0, decimal digits and 0x-literals convert,
\* anything else is NaN
ToNumber(s) ==
  LET t == Trim(s)
  IN IF t = <<>> THEN 0
     ELSE IF AllDigits(t) THEN RadixVal(t, 10)
     ELSE IF Len(t) >= 3 /\ t[1] = "0" /\ t[2] \in {"x", "X"}
             /\ \A i \in 3..Len(t) : t[i] \in HexDigits
          THEN RadixVal(SubSeq(t, 3, Len(t)), 16)
     ELSE NaN

\* n >= k in JavaScript: false when n is NaN
NumGE(n, k) == n # NaN /\ n >= k

\* ------------------------------------------------------------------ semver
\* NUMERICIDENTIFIER: 0|[1-9]\d*
IsNumericIdentifier(t) ==
  /\ t # <<>>
  /\ AllDigits(t)
  /\ (Len(t) > 1 => t[1] # "0")

\* the wildcard alternatives of XRANGEIDENTIFIER: x|X|\*
IsWildcard(t) == t \in {<<"x">>, <<"X">>, <<"*">>}

IsXRangeIdentifier(t) == IsNumericIdentifier(t) \/ IsWildcard(t)

\* GTLT: ((?:<|>)?=?)
GtltLen(s) ==
  LET a == IF s # <<>> /\ s[1] \in {"<", ">"} THEN 1 ELSE 0
  IN IF Len(s) > a /\ s[a + 1] = "=" THEN a + 1 ELSE a

RECURSIVE DropWhile(_, _)
DropWhile(s, chars) ==
  IF s # <<>> /\ Head(s) \in chars THEN DropWhile(Tail(s), chars) ELSE s

\* MAINVERSION: three numeric identifiers
IsMainVersion(s) ==
  LET p == Split(s, ".")
  IN Len(p) = 3 /\ \A i \in 1..3 : IsNumericIdentifier(p[i])

\* XRANGEPLAIN without its [v=\s]* prefix: one to three x-range identifiers
IsXRangePlain(s) ==
  LET p == Split(s, ".")
  IN Len(p) \in 1..3 /\ \A i \in 1..Len(p) : IsXRangeIdentifier(p[i])

\* FULLPLAIN: v?MAINVERSION (no prerelease or build part in the alphabet)
IsFullPlain(s) ==
  IsMainVersion(IF s # <<>> /\ Head(s) = "v" THEN Tail(s) ELSE s)

\* COMPARATOR: ^GTLT\s*(FULLPLAIN)$|^$
IsComparator(s) ==
  \/ s = <<>>
  \/ IsFullPlain(DropWhile(SubSeq(s, GtltLen(s) + 1, Len(s)), {Blank}))

\* XRANGE: ^GTLT\s*[v=\s]*XRANGEPLAIN$
IsXRange(s) ==
  IsXRangePlain(DropWhile(SubSeq(s, GtltLen(s) + 1, Len(s)), {"v", "=", Blank}))

\* STAR: (<|>)?=?\s*\* ; replaceStars removes its first occurrence
RECURSIVE ReplaceStar(_)
ReplaceStar(s) ==
  IF s = <<>> THEN s
  ELSE LET rest == DropWhile(SubSeq(s, GtltLen(s) + 1, Len(s)), {Blank})
       IN IF rest # <<>> /\ Head(rest) = "*" THEN Tail(rest)
          ELSE <<Head(s)>> \o ReplaceStar(Tail(s))

\* semver.validRange for a single comparator (a string without inner blanks, '||', '-', '^' or '~'): an x-range with a wildcard or a missing
\* part is rewritten into plain comparators and is valid; anything else is
\* left as it is, has its first star removed and must parse as a comparator
validRange(s) ==
  LET r == Trim(s)
  IN IF IsXRange(r) /\ ~IsMainVersion(DropWhile(SubSeq(r, GtltLen(r) + 1, Len(r)),
                                                {"v", "=", Blank}))
     THEN TRUE
     ELSE IsComparator(ReplaceStar(r))

\* semver.valid: ^v?MAINVERSION$
valid(s) == IsFullPlain(s)

\* --------------------------------------------------------- string literals
StrChannel == <<"c", "h", "a", "n", "n", "e", "l">>
StrVersion == <<"v", "e", "r", "s", "i", "o", "n">>
WinChannel == <<"-", "C", "h", "a", "n", "n", "e", "l">>
WinVersion == <<"-", "V", "e", "r", "s", "i", "o", "n">>
PosixChannel == <<"-", "-", "c", "h", "a", "n", "n", "e", "l">>
PosixVersion == <<"-", "-", "v", "e", "r", "s", "i", "o", "n">>
WinQuality == <<"-", "Q", "u", "a", "l", "i", "t", "y">>
PosixQuality == <<"-", "-", "q", "u", "a", "l", "i", "t", "y">>
InstallDirOption == <<"-", "-", "i", "n", "s", "t", "a", "l", "l", "-", "d", "i", "r">>
installationDirectoryLinux ==
  <<"/", "u", "s", "r", "/", "s", "h", "a", "r", "e", "/", "d", "o", "t", "n", "e", "t">>
DotNetCoreIndexUrl ==
  <<"h", "t", "t", "p", "s", ":", "/", "/", "d", "o", "t", "n", "e", "t", "c", "l",
    "i", ".", "b", "l", "o", "b", ".", "c", "o", "r", "e", ".", "w", "i", "n", "d",
    "o", "w", "s", ".", "n", "e", "t", "/", "d", "o", "t", "n", "e", "t", "/", "r",
    "e", "l", "e", "a", "s", "e", "-", "m", "e", "t", "a", "d", "a", "t", "a", "/",
    "r", "e", "l", "e", "a", "s", "e", "s", "-", "i", "n", "d", "e", "x", ".", "j",
    "s", "o", "n">>

\* ------------------------------------------------------------------ inputs
RECURSIVE Blanks(_)
Blanks(n) == IF n = 0 THEN <<>> ELSE <<Blank>> \o Blanks(n - 1)

MajorTokens ==
  { <<"3">>, <<"5">>, <<"6">>, <<"1", "0">>, <<"0", "6">>, <<"x">>, <<"*">>,
    <<"a">>, <<">", "6">>, <<"v", "6">>, <<"0", "x", "6">> }
MinorTokens == { <<"0">>, <<"1">>, <<"x">> }
PatchTokens == { <<"1", "0", "0">>, <<"x">> }
FourthTokens == { <<"4">> }

CoreSpecifiers ==
  LET one == MajorTokens
      two == { a \o Dot \o b : a \in MajorTokens, b \in MinorTokens }
      three == { ab \o Dot \o c : ab \in two, c \in PatchTokens }
      four == { abc \o Dot \o d : abc \in three, d \in FourthTokens }
  IN {<<>>, <<"a", "b", "c">>, <<"6", ".">>} \cup one \cup two \cup three \cup four

\* the values of the 'dotnet-version' input
Specifiers ==
  { Blanks(n) \o s \o Blanks(n) : n \in 0..MaxPad, s \in CoreSpecifiers }
    \cup { Blanks(n) : n \in 1..(MaxPad + 1) }

\* the values of the 'dotnet-quality' input; the empty string is "not given"
Qualities == { <<>>, <<"g", "a">> }

Platforms == {"windows", "linux", "macos"}

ChannelVersions ==
  { <<"3", ".", "1">>, <<"3", ".", "0">>, <<"6", ".", "0">>, <<"1", "0", ".", "0">> }

RECURSIVE SeqsUpTo(_, _)
SeqsUpTo(S, n) ==
  IF n = 0 THEN {<<>>}
  ELSE LET shorter == SeqsUpTo(S, n - 1)
       IN shorter \cup { Append(q, e) : q \in shorter, e \in S }

\* the documents the release index can answer with: a null result (404),
\* an object without 'releases-index', or an object with the array
Documents ==
  { [kind |-> "null", entries |-> <<>>], [kind |-> "nofield", entries |-> <<>>] }
    \cup { [kind |-> "index", entries |-> es] : es \in SeqsUpTo(ChannelVersions, MaxIndexLen) }

\* no document has been received yet
NoDocument == [kind |-> "none", entries |-> <<>>]

\* --------------------------------------------------- DotnetVersionResolver
Instances == {1, 2}
Calls == {1, 2}

\* the resolvedArgument a constructor creates
FreshArgument == [type |-> <<>>, value |-> <<>>, qualityFlag |-> FALSE]

NoError == [name |-> "none", text |-> <<>>, url |-> <<>>, code |-> 0]

IdleCall(i) ==
  [pc |-> "idle", inst |-> i, major |-> <<>>, minor |-> <<>>, gets |-> 0,
   tries |-> 0, found |-> <<>>, ret |-> FreshArgument, error |-> NoError]

\* /^\d*$/ in place of /^\d+$/: the empty tag passes
isNumericTagOrEmpty(versionTag) ==
  versionTag # Undefined /\ AllDigits(versionTag)

\* /^\d+$/.test(versionTag); undefined is tested as the string "undefined"
isNumericTag(versionTag) ==
  versionTag # Undefined /\ versionTag # <<>> /\ AllDigits(versionTag)

\* const [major, minor] = this.inputVersion.split('.')
MajorOf(in) == Split(in, ".")[1]
MinorOf(in) == LET p == Split(in, ".") IN IF Len(p) >= 2 THEN p[2] ELSE Undefined

\* a >= b on strings: comparison by code units, a prefix being smaller
RECURSIVE StringGE(_, _)
StringGE(a, b) ==
  IF b = <<>> THEN TRUE
  ELSE IF a = <<>> THEN FALSE
  ELSE IF Head(a) = Head(b) THEN StringGE(Tail(a), Tail(b))
  ELSE IF Head(a) \in Digits /\ Head(b) \in Digits
       THEN DigitVal(Head(a)) > DigitVal(Head(b))
  ELSE Head(b) \in Digits

\* major >= '6' without the conversion to a number
QualityFlagLexical(major) == StringGE(major, <<"6">>)

\* +major >= 6 ? true : false
QualityFlagOf(major) == NumGE(ToNumber(major), QualityMajor)

\* releasesInfo.find(info => info['channel-version'].split('.')[0] === major):
\* the position of the first match, 0 when there is none
RECURSIVE FindFrom(_, _, _)
FindFrom(releasesInfo, major, i) ==
  IF i > Len(releasesInfo) THEN 0
  ELSE IF Split(releasesInfo[i], ".")[1] = major THEN i
  ELSE FindFrom(releasesInfo, major, i + 1)

\* the position of the last match instead of the first
FindReleaseLast(releasesInfo, major) ==
  LET m == { k \in 1..Len(releasesInfo) : Split(releasesInfo[k], ".")[1] = major }
  IN IF m = {} THEN 0 ELSE CHOOSE k \in m : \A j \in m : j <= k

FindRelease(releasesInfo, major) == FindFrom(releasesInfo, major, 1)

\* the rewrite of type into the platform's flag at the end of
\* createDotNetVersion
PlatformTag(type, plat) ==
  IF plat = "windows"
  THEN (IF type = StrChannel THEN WinChannel ELSE WinVersion)
  ELSE (IF type = StrChannel THEN PosixChannel ELSE PosixVersion)

\* -------------------------------------------------------------------- state
VARIABLES
  version,          \* DotnetCoreInstaller.version / the constructor argument
  quality,          \* DotnetCoreInstaller.quality
  platform,         \* IS_WINDOWS / IS_LINUX
  remote,           \* the document the release index answers with
  inputVersion,     \* DotnetVersionResolver.inputVersion, per instance
  resolvedArgument, \* DotnetVersionResolver.resolvedArgument, per instance
  call,             \* the createDotNetVersion calls and their locals
  ipc,              \* position of installDotnet
  scriptArguments,  \* installDotnet's scriptArguments
  scriptPath,       \* installDotnet's scriptPath
  warnings,         \* number of core.warning calls
  chmods,           \* number of successful chmodSync calls
  execs,            \* number of exec.getExecOutput calls
  outcome           \* how installDotnet ended

vars ==
  <<version, quality, platform, remote, inputVersion, resolvedArgument, call,
    ipc, scriptArguments, scriptPath, warnings, chmods, execs, outcome>>

installerVars == <<ipc, scriptArguments, scriptPath, warnings, chmods, execs, outcome>>
inputVars == <<version, quality, platform>>

\* the Error thrown by resolveVersionInput for an invalid format
InvalidSpecifierError(in) ==
  [name |-> "InvalidSpecifierError", text |-> in, url |-> <<>>, code |-> 0]

\* the Error thrown by getLatestVersion when find returns nothing
ChannelNotFoundError(versionParts) ==
  [name |-> "ChannelNotFoundError", text |-> Join(versionParts, Dot),
   url |-> DotNetCoreIndexUrl, code |-> 0]

\* reading .find of an undefined 'releases-index'
TypeError == [name |-> "TypeError", text |-> <<>>, url |-> <<>>, code |-> 0]

\* what getJson throws once the client's retries are used up
TransportError == [name |-> "TransportError", text |-> <<>>, url |-> <<>>, code |-> 0]

\* the assignment keeps a type that is already set
WithTypeIfUnset(arg, type) ==
  IF arg.type = <<>> THEN [arg EXCEPT !.type = type] ELSE arg

\* this.resolvedArgument.type = type
WithType(arg, type) == [arg EXCEPT !.type = type]

\* resolveVersionInput computing the quality flag for exact versions too
resolveVersionInputQualityAlways(arg, in) ==
  LET major == MajorOf(in)
      minor == MinorOf(in)
  IN IF ~validRange(in)
     THEN [arg |-> arg, pc |-> "failed", error |-> InvalidSpecifierError(in)]
     ELSE IF valid(in)
     THEN [arg |-> [WithType(arg, StrVersion) EXCEPT
                      !.value = in, !.qualityFlag = QualityFlagOf(major)],
           pc |-> "resolved", error |-> NoError]
     ELSE IF isNumericTag(major)
     THEN IF isNumericTag(minor)
          THEN [arg |-> [WithType(arg, StrChannel) EXCEPT
                           !.value = major \o Dot \o minor,
                           !.qualityFlag = QualityFlagOf(major)],
                pc |-> "resolved", error |-> NoError]
          ELSE [arg |-> WithType(arg, StrChannel), pc |-> "fetch", error |-> NoError]
     ELSE [arg |-> [arg EXCEPT !.qualityFlag = QualityFlagOf(major)],
           pc |-> "resolved", error |-> NoError]

\* resolveVersionInput up to its end or to the await of getLatestVersion:
\* the new resolvedArgument and where the call continues
resolveVersionInput(arg, in) ==
  LET major == MajorOf(in)
      minor == MinorOf(in)
  IN IF ~validRange(in)
     THEN [arg |-> arg, pc |-> "failed", error |-> InvalidSpecifierError(in)]
     ELSE IF valid(in)
     THEN [arg |-> [WithType(arg, StrVersion) EXCEPT !.value = in],
           pc |-> "resolved", error |-> NoError]
     ELSE IF isNumericTag(major)
     THEN IF isNumericTag(minor)
          THEN [arg |-> [WithType(arg, StrChannel) EXCEPT
                           !.value = major \o Dot \o minor,
                           !.qualityFlag = QualityFlagOf(major)],
                pc |-> "resolved", error |-> NoError]
          ELSE [arg |-> WithType(arg, StrChannel), pc |-> "fetch", error |-> NoError]
     ELSE [arg |-> [arg EXCEPT !.qualityFlag = QualityFlagOf(major)],
           pc |-> "resolved", error |-> NoError]

\* createDotNetVersion is entered by call c on an instance holding `in`
EnterCall(c, in) ==
  LET i == call[c].inst
      r == resolveVersionInput(resolvedArgument[i], in)
  IN /\ call[c].pc = "idle"
     /\ resolvedArgument' = [resolvedArgument EXCEPT ![i] = r.arg]
     /\ call' = [call EXCEPT ![c] =
                   [@ EXCEPT !.pc = r.pc, !.error = r.error,
                             !.major = MajorOf(in), !.minor = MinorOf(in),
                             !.gets = IF r.pc = "fetch" THEN @ + 1 ELSE @]]

\* createDotNetVersion called directly on an already constructed resolver
Begin(c) ==
  /\ EnterCall(c, inputVersion[call[c].inst])
  /\ UNCHANGED <<inputVars, remote, inputVersion, installerVars>>

\* a transient failure of the request, retried by the client
FetchRetry(c) ==
  /\ call[c].pc = "fetch"
  /\ call[c].tries < MaxRetries
  /\ call' = [call EXCEPT ![c].tries = @ + 1]
  /\ UNCHANGED <<inputVars, remote, inputVersion, resolvedArgument, installerVars>>

\* the request fails again after the last retry: getJson throws
FetchError(c) ==
  /\ call[c].pc = "fetch"
  /\ call[c].tries = MaxRetries
  /\ call' = [call EXCEPT ![c].pc = "failed", ![c].error = TransportError]
  /\ UNCHANGED <<inputVars, remote, inputVersion, resolvedArgument, installerVars>>

\* getJson answers: the rest of getLatestVersion
FetchResponse(c) ==
  /\ call[c].pc = "fetch"
  /\ \E doc \in (IF remote = NoDocument THEN Documents ELSE {remote}) :
       /\ remote' = doc
       /\ IF doc.kind # "index"
          THEN call' = [call EXCEPT ![c].pc = "failed", ![c].error = TypeError]
          ELSE LET k == FindRelease(doc.entries, call[c].major)
               IN IF k = 0
                  THEN call' = [call EXCEPT ![c].pc = "failed",
                                  ![c].error = ChannelNotFoundError(
                                                 <<call[c].major, call[c].minor>>)]
                  ELSE call' = [call EXCEPT ![c].pc = "assign",
                                            ![c].found = doc.entries[k]]
  /\ UNCHANGED <<inputVars, inputVersion, resolvedArgument, installerVars>>

\* resolveVersionInput resumes after getLatestVersion returned
AssignValue(c) ==
  /\ call[c].pc = "assign"
  /\ resolvedArgument' =
       [resolvedArgument EXCEPT ![call[c].inst] =
          [@ EXCEPT !.value = call[c].found,
                    !.qualityFlag = QualityFlagOf(call[c].major)]]
  /\ call' = [call EXCEPT ![c].pc = "resolved"]
  /\ UNCHANGED <<inputVars, remote, inputVersion, installerVars>>

\* createDotNetVersion resumes after resolveVersionInput and returns
TagAndReturn(c) ==
  LET i == call[c].inst
      arg == resolvedArgument[i]
      tagged == IF arg.type = <<>> THEN arg
                ELSE [arg EXCEPT !.type = PlatformTag(arg.type, platform)]
  IN /\ call[c].pc = "resolved"
     /\ resolvedArgument' = [resolvedArgument EXCEPT ![i] = tagged]
     /\ call' = [call EXCEPT ![c].pc = "returned", ![c].ret = tagged]
     /\ UNCHANGED <<inputVars, remote, inputVersion, installerVars>>

\* ----------------------------------------------------- DotnetCoreInstaller
\* the value of an environment variable that is not set
Null == <<"null">>

\* the values of https_proxy and no_proxy
ProxyValues == { Null, <<"p">> }

\* the captured standard output of the installer script
Outputs == { <<>>, <<"l", "o", "g">> }

Quote == <<"'">>
Space == <<" ">>

\* path.join(__dirname, '..'): the root of the action, with a quote in it
ActionRoot == <<"/", "o", "'", "k">>
StrExternals == <<"e", "x", "t", "e", "r", "n", "a", "l", "s">>
ScriptPs1 == <<"i", "n", "s", "t", "a", "l", "l", "-", "d", "o", "t", "n", "e", "t", ".", "p", "s", "1">>
ScriptSh == <<"i", "n", "s", "t", "a", "l", "l", "-", "d", "o", "t", "n", "e", "t", ".", "s", "h">>
installationDirectoryWindows == <<"C", ":", "\\", "P", "\\", "d", "o", "t", "n", "e", "t">>
StrInstallDirWin == <<"-", "I", "n", "s", "t", "a", "l", "l", "D", "i", "r", " ">>
StrProxyAddress == <<"-", "P", "r", "o", "x", "y", "A", "d", "d", "r", "e", "s", "s", " ">>
StrProxyBypass == <<"-", "P", "r", "o", "x", "y", "B", "y", "p", "a", "s", "s", "L", "i", "s", "t", " ">>
PwshPath == <<"p", "w", "s", "h">>
PowershellPath == <<"p", "o", "w", "e", "r", "s", "h", "e", "l", "l">>

windowsDefaultOptions ==
  << <<"-", "N", "o", "L", "o", "g", "o">>, <<"-", "S", "t", "a">>,
     <<"-", "N", "o", "P", "r", "o", "f", "i", "l", "e">>,
     <<"-", "N", "o", "n", "I", "n", "t", "e", "r", "a", "c", "t", "i", "v", "e">>,
     <<"-", "E", "x", "e", "c", "u", "t", "i", "o", "n", "P", "o", "l", "i", "c", "y">>,
     <<"U", "n", "r", "e", "s", "t", "r", "i", "c", "t", "e", "d">>,
     <<"-", "C", "o", "m", "m", "a", "n", "d">> >>

\* String.prototype.replace(/'/g, "''")
RECURSIVE EscapeQuotes(_)
EscapeQuotes(s) ==
  IF s = <<>> THEN <<>>
  ELSE (IF Head(s) = "'" THEN <<"'", "'">> ELSE <<Head(s)>>) \o EscapeQuotes(Tail(s))

scriptName(plat) == IF plat = "windows" THEN ScriptPs1 ELSE ScriptSh

escapedScript(plat) ==
  LET sep == IF plat = "windows" THEN <<"\\">> ELSE <<"/">>
  IN EscapeQuotes(ActionRoot \o sep \o StrExternals \o sep \o scriptName(plat))

NoOutcome == [status |-> "pending", error |-> NoError, exitCode |-> 0, stdout |-> <<>>]

ExecutableNotFoundError ==
  [name |-> "ExecutableNotFoundError", text |-> <<>>, url |-> <<>>, code |-> 0]

\* chmodSync throwing for a script that is not there
FileSystemError == [name |-> "FileSystemError", text |-> <<>>, url |-> <<>>, code |-> 0]

\* the error message without the captured output
InstallerExecutionErrorNoOutput(exitCode, stdout) ==
  [name |-> "InstallerExecutionError", text |-> <<>>, url |-> <<>>, code |-> exitCode]

InstallerExecutionError(exitCode, stdout) ==
  [name |-> "InstallerExecutionError", text |-> stdout, url |-> <<>>, code |-> exitCode]

\* setQuality pushing the option without looking at qualityFlag
setQualityUnchecked(dotnetVersion, args, q, plat) ==
  LET option == IF plat = "windows" THEN WinQuality ELSE PosixQuality
  IN [args |-> args \o <<option, q>>, warned |-> FALSE]

\* setQuality: the arguments after it, and whether it warned
setQuality(dotnetVersion, args, q, plat) ==
  LET option == IF plat = "windows" THEN WinQuality ELSE PosixQuality
  IN IF dotnetVersion.qualityFlag
     THEN [args |-> args \o <<option, q>>, warned |-> FALSE]
     ELSE [args |-> args, warned |-> TRUE]

\* if (dotnetVersion.type) push(type, value); if (this.quality) setQuality(...)
VersionAndQuality(dotnetVersion, args, q, plat) ==
  LET withVersion == IF dotnetVersion.type # <<>>
                     THEN args \o <<dotnetVersion.type, dotnetVersion.value>>
                     ELSE args
  IN IF q # <<>>
     THEN setQuality(dotnetVersion, withVersion, q, plat)
     ELSE [args |-> withVersion, warned |-> FALSE]

\* the Windows branch: the words of the command before they are joined
WindowsCommand(dotnetVersion, q, httpsProxy, noProxy) ==
  LET a == VersionAndQuality(dotnetVersion,
                             <<<<"&">>, Quote \o escapedScript("windows") \o Quote>>,
                             q, "windows")
      b == IF httpsProxy # Null
           THEN Append(a.args, StrProxyAddress \o httpsProxy) ELSE a.args
      c == IF noProxy # Null
           THEN Append(b, StrProxyBypass \o noProxy) ELSE b
  IN [args |-> Append(c, StrInstallDirWin \o Quote \o installationDirectoryWindows \o Quote),
      warned |-> a.warned]

\* the POSIX branch
PosixArguments(dotnetVersion, q, plat) ==
  LET a == VersionAndQuality(dotnetVersion, <<>>, q, plat)
  IN [args |-> IF plat = "linux"
               THEN a.args \o <<InstallDirOption, installationDirectoryLinux>>
               ELSE a.args,
      warned |-> a.warned]

\* installDotnet starts: constructs the resolver and calls createDotNetVersion
InstallStart ==
  /\ ipc = "start"
  /\ inputVersion' = [inputVersion EXCEPT ![call[1].inst] = Trim(version)]
  /\ EnterCall(1, Trim(version))
  /\ ipc' = "resolving"
  /\ UNCHANGED <<inputVars, remote, scriptArguments, scriptPath, warnings, chmods,
                 execs, outcome>>

\* createDotNetVersion rejected: installDotnet rejects with the same error
ResolveFailed ==
  /\ ipc = "resolving"
  /\ call[1].pc = "failed"
  /\ ipc' = "failed"
  /\ outcome' = [outcome EXCEPT !.status = "error", !.error = call[1].error]
  /\ UNCHANGED <<inputVars, remote, inputVersion, resolvedArgument, call,
                 scriptArguments, scriptPath, warnings, chmods, execs>>

\* the IS_WINDOWS branch up to the call of getExecOutput
BuildWindows ==
  /\ ipc = "resolving"
  /\ call[1].pc = "returned"
  /\ platform = "windows"
  /\ \E httpsProxy \in ProxyValues, noProxy \in ProxyValues, pwsh \in BOOLEAN,
        powershell \in BOOLEAN :
       LET cmd == WindowsCommand(resolvedArgument[call[1].inst], quality,
                                 httpsProxy, noProxy)
       IN /\ warnings' = IF cmd.warned THEN warnings + 1 ELSE warnings
          /\ IF pwsh \/ powershell
             THEN /\ scriptPath' = IF pwsh THEN PwshPath ELSE PowershellPath
                  /\ scriptArguments' = windowsDefaultOptions \o <<Join(cmd.args, Space)>>
                  /\ execs' = execs + 1
                  /\ ipc' = "running"
                  /\ UNCHANGED outcome
             ELSE /\ scriptArguments' = cmd.args
                  /\ ipc' = "failed"
                  /\ outcome' = [outcome EXCEPT !.status = "error",
                                             !.error = ExecutableNotFoundError]
                  /\ UNCHANGED <<scriptPath, execs>>
  /\ UNCHANGED <<inputVars, remote, inputVersion, resolvedArgument, call, chmods>>

\* the else branch up to the call of getExecOutput
BuildPosix ==
  /\ ipc = "resolving"
  /\ call[1].pc = "returned"
  /\ platform # "windows"
  /\ \E scriptExists \in BOOLEAN, scriptFound \in BOOLEAN :
       LET built == PosixArguments(resolvedArgument[call[1].inst], quality, platform)
       IN IF ~scriptExists
          THEN /\ ipc' = "failed"
               /\ outcome' = [outcome EXCEPT !.status = "error", !.error = FileSystemError]
               /\ UNCHANGED <<scriptArguments, scriptPath, warnings, chmods, execs>>
          ELSE IF ~scriptFound
          THEN /\ chmods' = chmods + 1
               /\ ipc' = "failed"
               /\ outcome' = [outcome EXCEPT !.status = "error",
                                             !.error = ExecutableNotFoundError]
               /\ UNCHANGED <<scriptArguments, scriptPath, warnings, execs>>
          ELSE /\ chmods' = chmods + 1
               /\ scriptPath' = escapedScript(platform)
               /\ scriptArguments' = built.args
               /\ warnings' = IF built.warned THEN warnings + 1 ELSE warnings
               /\ execs' = execs + 1
               /\ ipc' = "running"
               /\ UNCHANGED outcome
  /\ UNCHANGED <<inputVars, remote, inputVersion, resolvedArgument, call>>

\* getExecOutput returns; if (exitCode) throw
ExecExit ==
  /\ ipc = "running"
  /\ \E exitCode \in 0..MaxExitCode, stdout \in Outputs :
       IF exitCode # 0
       THEN /\ ipc' = "failed"
            /\ outcome' = [status |-> "error",
                           error |-> InstallerExecutionError(exitCode, stdout),
                           exitCode |-> exitCode, stdout |-> stdout]
       ELSE /\ ipc' = "done"
            /\ outcome' = [status |-> "ok", error |-> NoError,
                           exitCode |-> exitCode, stdout |-> stdout]
  /\ UNCHANGED <<inputVars, remote, inputVersion, resolvedArgument, call,
                 scriptArguments, scriptPath, warnings, chmods, execs>>

\* ----------------------------------------------------------- specifications
InitCommon ==
  /\ version \in Specifiers
  /\ platform \in Platforms
  /\ remote = NoDocument
  /\ resolvedArgument = [i \in Instances |-> FreshArgument]
  /\ scriptArguments = <<>>
  /\ scriptPath = <<>>
  /\ warnings = 0
  /\ chmods = 0
  /\ execs = 0
  /\ outcome = NoOutcome

\* one run of installDotnet on a constructed DotnetCoreInstaller
Init ==
  /\ InitCommon
  /\ quality \in Qualities
  /\ inputVersion = [i \in Instances |-> <<>>]
  /\ call = [c \in Calls |-> IdleCall(c)]
  /\ ipc = "start"

Next ==
  \/ InstallStart
  \/ FetchRetry(1)
  \/ FetchError(1)
  \/ FetchResponse(1)
  \/ AssignValue(1)
  \/ TagAndReturn(1)
  \/ ResolveFailed
  \/ BuildWindows
  \/ BuildPosix
  \/ ExecExit

Spec == Init /\ [][Next]_vars

Finished(c) == call[c].pc \in {"returned", "failed"}

\* two createDotNetVersion calls, the second after the first has settled, on
\* one resolver or on two resolvers constructed with the same specifier
InitSeq ==
  /\ InitCommon
  /\ quality = <<>>
  /\ inputVersion = [i \in Instances |-> Trim(version)]
  /\ \E i \in Instances : call = [c \in Calls |-> IdleCall(IF c = 1 THEN 1 ELSE i)]
  /\ ipc = "none"

NextSeq ==
  \/ Begin(1)
  \/ Finished(1) /\ Begin(2)
  \/ \E c \in Calls : FetchRetry(c)
  \/ \E c \in Calls : FetchError(c)
  \/ \E c \in Calls : FetchResponse(c)
  \/ \E c \in Calls : AssignValue(c)
  \/ \E c \in Calls : TagAndReturn(c)

SpecSeq == InitSeq /\ [][NextSeq]_vars

\* two createDotNetVersion calls on one resolver, the second made while the
\* first is suspended in its request to the release index
InitConc ==
  /\ InitCommon
  /\ quality = <<>>
  /\ inputVersion = [i \in Instances |-> Trim(version)]
  /\ call = [c \in Calls |-> IdleCall(1)]
  /\ ipc = "none"

NextConc ==
  \/ Begin(1)
  \/ call[1].pc = "fetch" /\ Begin(2)
  \/ \E c \in Calls : FetchRetry(c)
  \/ \E c \in Calls : FetchError(c)
  \/ \E c \in Calls : FetchResponse(c)
  \/ \E c \in Calls : AssignValue(c)
  \/ \E c \in Calls : TagAndReturn(c)

SpecConc == InitConc /\ [][NextConc]_vars

\* ------------------------------------------------------------ the claims
\* the dot-separated components of a specifier, blanks around it ignored
Parts(s) == Split(Trim(s), ".")

\* "A" or "A.x" with numeric A
IsMajorOnlyForm(s) ==
  LET p == Parts(s)
  IN /\ Len(p) \in 1..2
     /\ IsNumericIdentifier(p[1])
     /\ (Len(p) = 2 => IsWildcard(p[2]))

\* "A.B" or "A.B.x" with numeric A and B
IsChannelForm(s) ==
  LET p == Parts(s)
  IN /\ Len(p) \in 2..3
     /\ IsNumericIdentifier(p[1])
     /\ IsNumericIdentifier(p[2])
     /\ (Len(p) = 3 => IsWildcard(p[3]))

\* "A.B.C" with three numeric components
IsExactForm(s) ==
  LET p == Parts(s)
  IN Len(p) = 3 /\ \A i \in 1..3 : IsNumericIdentifier(p[i])

ChannelFlag(plat) == IF plat = "windows" THEN WinChannel ELSE PosixChannel
VersionFlag(plat) == IF plat = "windows" THEN WinVersion ELSE PosixVersion

\* the entries of the received index whose channel-version has major A
Matches(entries, A) == { k \in 1..Len(entries) : Split(entries[k], ".")[1] = A }

\* the smallest element of a non-empty set of positions
Least(S) == CHOOSE k \in S : \A j \in S : k <= j

\* C1: for a specifier A or A.x with numeric A, createDotNetVersion calls the
\* release index exactly once; when the index has an entry for major A it
\* returns the platform's channel flag with the channel-version of the first
\* such entry in index order, and supportsQuality = (A >= 6).
C1_FirstMatchingChannel ==
  IsMajorOnlyForm(version) =>
    LET A == Parts(version)[1]
        m == Matches(remote.entries, A)
    IN /\ ipc # "start" => call[1].gets = 1
       /\ (call[1].pc = "failed" /\ call[1].error # TransportError) => m = {}
       /\ call[1].pc = "returned" =>
            /\ remote.kind = "index"
            /\ m # {}
            /\ call[1].ret = [type |-> ChannelFlag(platform),
                              value |-> remote.entries[Least(m)],
                              qualityFlag |-> (RadixVal(A, 10) >= 6)]

\* C1 witness: "3" against [3.1, 6.0] has returned channel 3.1 without quality
C1_Witness ==
  /\ version = <<"3">>
  /\ remote.entries = << <<"3", ".", "1">>, <<"6", ".", "0">> >>
  /\ call[1].pc = "returned"
  /\ call[1].gets = 1
  /\ call[1].ret.value = <<"3", ".", "1">>
  /\ ~call[1].ret.qualityFlag

\* C2: for a specifier A.B or A.B.x with numeric A and B, createDotNetVersion
\* returns the platform's channel flag with value "A.B" and supportsQuality =
\* (A >= 6) as integers, and never calls the release index.
C2_ExactChannel ==
  (IsChannelForm(version) /\ ipc # "start") =>
    LET A == Parts(version)[1]
        B == Parts(version)[2]
    IN /\ call[1].pc \in {"resolved", "returned"}
       /\ call[1].gets = 0
       /\ remote = NoDocument
       /\ call[1].pc = "returned" =>
            call[1].ret = [type |-> ChannelFlag(platform),
                           value |-> A \o Dot \o B,
                           qualityFlag |-> (RadixVal(A, 10) >= 6)]

\* C2 witness: "10.0" has returned channel 10.0 with quality supported
C2_Witness ==
  /\ version = <<"1", "0", ".", "0">>
  /\ call[1].pc = "returned"
  /\ call[1].ret.value = <<"1", "0", ".", "0">>
  /\ call[1].ret.qualityFlag
  /\ call[1].gets = 0

\* C3: for an exact version A.B.C, createDotNetVersion returns the platform's
\* version flag with the specifier as value and supportsQuality false, for
\* every major, without calling the release index; on Linux without a quality
\* the installer gets [--version, A.B.C, --install-dir, /usr/share/dotnet].
C3_ExactVersion ==
  (IsExactForm(version) /\ ipc # "start") =>
    /\ call[1].pc \in {"resolved", "returned"}
    /\ call[1].gets = 0
    /\ remote = NoDocument
    /\ call[1].pc = "returned" =>
         call[1].ret = [type |-> VersionFlag(platform), value |-> Trim(version),
                        qualityFlag |-> FALSE]
    /\ (execs = 1 /\ platform = "linux" /\ quality = <<>>) =>
         scriptArguments = <<PosixVersion, Trim(version), InstallDirOption,
                             installationDirectoryLinux>>

\* C3 witness: "6.0.100" on Linux without quality has been handed to the
\* installer
C3_Witness ==
  /\ version = <<"6", ".", "0", ".", "1", "0", "0">>
  /\ platform = "linux"
  /\ quality = <<>>
  /\ execs = 1
  /\ call[1].ret.value = version
  /\ Len(scriptArguments) = 4

\* C5: a specifier that is empty after trimming resolves to the unresolved
\* argument (no type, no value, no quality) without error and without a call
\* to the release index; a non-empty one outside the range grammar fails with
\* InvalidSpecifierError before any call to the release index.
C5_EmptyAndInvalid ==
  ipc # "start" =>
    /\ Trim(version) = <<>> =>
         /\ call[1].pc \in {"resolved", "returned"}
         /\ call[1].error = NoError
         /\ call[1].gets = 0
         /\ remote = NoDocument
         /\ resolvedArgument[1] = FreshArgument
         /\ call[1].pc = "returned" => call[1].ret = FreshArgument
    /\ (Trim(version) # <<>> /\ ~validRange(Trim(version))) =>
         /\ call[1].pc = "failed"
         /\ call[1].error = InvalidSpecifierError(Trim(version))
         /\ call[1].gets = 0
         /\ remote = NoDocument

\* C5 witness: a blank specifier has returned unresolved
C5_Witness ==
  /\ version = <<" ">>
  /\ call[1].pc = "returned"
  /\ call[1].ret.type = <<>>

\* s occurs in t as a contiguous run of characters
Occurs(s, t) ==
  \E k \in 1..(Len(t) - Len(s) + 1) : SubSeq(t, k, k + Len(s) - 1) = s

\* the quality option followed by the requested level is among the words
\* handed to the installer: an element pair of the POSIX argument list, a
\* word pair of the command that ends the Windows argument list
HasQualityFlag ==
  IF platform = "windows"
  THEN Occurs(Space \o WinQuality \o Space \o quality \o Space,
              scriptArguments[Len(scriptArguments)])
  ELSE \E k \in 1..(Len(scriptArguments) - 1) :
         scriptArguments[k] = PosixQuality /\ scriptArguments[k + 1] = quality

QualityRequested == quality # <<>>

\* C4 as stated: the installer's arguments carry the quality flag iff a
\* quality was requested and the resolved argument supports it; a warning is
\* emitted exactly when a quality was requested and is not supported, and
\* then the installer is still invoked.
C4_Original ==
  /\ execs = 1 =>
       /\ HasQualityFlag <=> (QualityRequested /\ resolvedArgument[1].qualityFlag)
       /\ warnings = (IF QualityRequested /\ ~resolvedArgument[1].qualityFlag
                      THEN 1 ELSE 0)
  /\ warnings > 0 => execs = 1

\* C4 (amended): the installer's arguments carry the quality flag iff a
\* quality was requested and the resolved argument supports it; a warning is
\* emitted, once, only when a quality was requested and is not supported, and
\* always when the installer is invoked in that case; after the warning the
\* installer is invoked, except on Windows when neither pwsh nor powershell
\* is found, where the run ends with ExecutableNotFoundError.
C4_QualityFlagAndWarning ==
  /\ execs = 1 =>
       /\ HasQualityFlag <=> (QualityRequested /\ resolvedArgument[1].qualityFlag)
       /\ warnings = (IF QualityRequested /\ ~resolvedArgument[1].qualityFlag
                      THEN 1 ELSE 0)
  /\ warnings > 0 =>
       /\ warnings = 1
       /\ QualityRequested
       /\ ~resolvedArgument[1].qualityFlag
       /\ \/ execs = 1
          \/ /\ platform = "windows"
             /\ ipc = "failed"
             /\ outcome.error = ExecutableNotFoundError

\* C4 witness: "5.0" with quality "ga" was handed to the installer without
\* the quality flag, after a warning
C4_Witness ==
  /\ version = <<"5", ".", "0">>
  /\ quality = <<"g", "a">>
  /\ execs = 1
  /\ warnings = 1
  /\ ~HasQualityFlag

\* C6: for a specifier A or A.x with numeric A and a received index document
\* without an entry for major A (an empty 'releases-index', or a document
\* without that field, included), createDotNetVersion fails with
\* ChannelNotFoundError naming the requested major and the index URL.
C6_ChannelNotFound ==
  (/\ IsMajorOnlyForm(version)
   /\ remote # NoDocument
   /\ Matches(remote.entries, Parts(version)[1]) = {}
   /\ call[1].pc # "fetch") =>
    /\ call[1].pc = "failed"
    /\ call[1].error.name = "ChannelNotFoundError"
    /\ call[1].error.url = DotNetCoreIndexUrl
    /\ Split(call[1].error.text, ".")[1] = Parts(version)[1]

\* C7: a returned argument has supportsQuality = true only with the channel
\* flag and a major that is a numeric token of integer value >= 6, for every
\* specifier that passes range validation; an unresolved or exact-version
\* argument never has it, and the platform tagging leaves it as it was.
C7_QualityOnlyForChannel ==
  [][ /\ (call[1].pc = "returned")' =>
           /\ (call[1].ret = resolvedArgument[1])'
           /\ (call[1].ret.qualityFlag)' =>
                /\ (call[1].ret.type = ChannelFlag(platform))'
                /\ AllDigits(Parts(version)[1])
                /\ Parts(version)[1] # <<>>
                /\ RadixVal(Parts(version)[1], 10) >= 6
      /\ (call[1].pc = "resolved" /\ (call[1].pc = "returned")') =>
           (resolvedArgument[1].qualityFlag)' = resolvedArgument[1].qualityFlag
    ]_vars

\* C7 witness: the comparator form ">6" passed validation and returned an
\* unresolved argument without quality support
C7_Witness ==
  /\ version = <<">", "6">>
  /\ call[1].pc = "returned"
  /\ call[1].ret.type = <<>>
  /\ ~call[1].ret.qualityFlag

\* C10 as stated: the installer is invoked at most once and only after
\* resolution returned; when resolution fails or no executable is found the
\* run ends in error, the installer not invoked and the script's permissions
\* not changed; a non-zero exit fails the run with InstallerExecutionError
\* carrying exit code and output, a zero exit succeeds.
C10_Original ==
  /\ execs <= 1
  /\ execs = 1 => call[1].pc = "returned"
  /\ call[1].pc = "failed" => execs = 0 /\ chmods = 0 /\ ipc \in {"resolving", "failed"}
  /\ (ipc = "failed" /\ outcome.error = ExecutableNotFoundError) =>
       execs = 0 /\ chmods = 0
  /\ (ipc = "failed" /\ execs = 1) =>
       /\ outcome.exitCode # 0
       /\ outcome.error = [name |-> "InstallerExecutionError",
                           text |-> outcome.stdout, url |-> <<>>,
                           code |-> outcome.exitCode]
  /\ ipc = "done" => execs = 1 /\ outcome.exitCode = 0 /\ outcome.status = "ok"

\* C10 (amended): as stated, except that the script's permissions are
\* unchanged only when resolution fails or on Windows: on POSIX the script is
\* made executable before its path is looked up, so a failed lookup ends the
\* run with the permissions already changed.
C10_InvokeOnlyAfterResolution ==
  /\ execs <= 1
  /\ execs = 1 => call[1].pc = "returned"
  /\ call[1].pc = "failed" => execs = 0 /\ chmods = 0 /\ ipc \in {"resolving", "failed"}
  /\ (ipc = "failed" /\ outcome.error = ExecutableNotFoundError) =>
       execs = 0 /\ (platform = "windows" => chmods = 0)
  /\ (ipc = "failed" /\ execs = 1) =>
       /\ outcome.exitCode # 0
       /\ outcome.error = [name |-> "InstallerExecutionError",
                           text |-> outcome.stdout, url |-> <<>>,
                           code |-> outcome.exitCode]
  /\ ipc = "done" => execs = 1 /\ outcome.exitCode = 0 /\ outcome.status = "ok"

\* C10 witness: the installer was invoked once and exited non-zero with
\* captured output
C10_Witness ==
  /\ ipc = "failed"
  /\ execs = 1
  /\ outcome.exitCode = 1
  /\ outcome.stdout = <<"l", "o", "g">>
  /\ outcome.error.name = "InstallerExecutionError"

\* C8: two createDotNetVersion calls in sequence, with the same specifier and
\* an unchanged index, on one resolver or on two, return identical arguments
\* (same platform flag, value and supportsQuality), and fail alike unless the
\* transport failed.
C8_Idempotent ==
  /\ (call[1].pc = "returned" /\ call[2].pc = "returned") =>
       call[1].ret = call[2].ret
  /\ (Finished(1) /\ Finished(2) /\ call[1].error # TransportError
        /\ call[2].error # TransportError) =>
       (call[1].pc = call[2].pc /\ call[1].error = call[2].error)

\* C8 witness: both calls on one resolver looked the channel up and returned
C8_Witness ==
  /\ call[2].inst = 1
  /\ call[1].pc = "returned"
  /\ call[2].pc = "returned"
  /\ call[1].gets = 1
  /\ call[2].gets = 1
  /\ call[2].ret.type = ChannelFlag(platform)

\* what one createDotNetVersion call on a fresh resolver returns when the
\* index answers with doc
IsolatedResult(in, doc, plat) ==
  LET r == resolveVersionInput(FreshArgument, in)
      arg == IF r.pc = "fetch"
             THEN [r.arg EXCEPT
                     !.value = doc.entries[FindRelease(doc.entries, MajorOf(in))],
                     !.qualityFlag = QualityFlagOf(MajorOf(in))]
             ELSE r.arg
  IN IF arg.type = <<>> THEN arg
     ELSE [arg EXCEPT !.type = PlatformTag(arg.type, plat)]

\* C9: calls on one resolver that overlap are independent: each returns what
\* an isolated call returns (a channel is never tagged with the version flag),
\* and an argument already returned is what an isolated call returns.
C9_IndependentCalls ==
  \A c \in Calls :
    call[c].pc = "returned" =>
      /\ call[c].ret = IsolatedResult(Trim(version), remote, platform)
      /\ resolvedArgument[call[c].inst] = call[c].ret

====
